---- MODULE Spec2Model ----
(***************************************************************************)
(* Cart -> order -> payment verification -> fulfillment life cycle of the  *)
(* multi-vendor storefront (store/views.py, vendor/views.py).              *)
(*                                                                         *)
(* The durable store is modelled table by table.  Every HTTP request is    *)
(* handled by one of two workers; a view that reads a row into a local     *)
(* object and saves it later is split at the points where it touches the   *)
(* store, so that two requests interleave as they do under a request-      *)
(* parallel server without transactions or row locks (none are taken in    *)
(* the views).  Model.save() writes every column of the in-memory object.  *)
(* Money is in integer cents.                                              *)
(***************************************************************************)
EXTENDS Integers, Sequences, FiniteSets, TLC

\* ---------------------------------------------------------------- bounds
MaxLines  == 2      \* rows inserted into the Cart table in a run
MaxOrders == 1      \* rows of the Order table
MaxQty    == 2      \* largest quantity a request asks for
MaxCallbacks     == 2   \* verification callbacks served in a run
MaxCouponApplies == 1   \* coupon_apply requests that reach the items, in a run of Spec
MaxCouponRuns    == 3   \* the same, in a run of the coupon specifications
MaxProductUpdates == 1  \* update_product requests that save, in a run
MaxReplayOrders  == 2   \* rows of the Order table, in a run of SpecReplay

\* ------------------------------------------------------- fixed catalogue
NoCart   == "none"
NoValue  == "None"
CartIds  == {"c1", "c2"}
Vendors  == {"v1", "v2"}
Workers  == {1, 2}
Customer == "customer"

\* Product rows (id = index): vendor v1 owns products 1 and 2, v2 owns 3;
\* product 4 is not purchasable.
Catalog ==
  << [vendor |-> "v1", price |-> 2000, shipping |-> 500,  stock |-> 2, status |-> "Published"],
     [vendor |-> "v1", price |-> 1000, shipping |-> 0,    stock |-> 1, status |-> "Published"],
     [vendor |-> "v2", price |-> 4000, shipping |-> 1000, stock |-> 1, status |-> "Published"],
     [vendor |-> "v2", price |-> 3000, shipping |-> 0,    stock |-> 1, status |-> "Draft"] >>
ProductIds == DOMAIN Catalog

\* Coupon rows, keyed by code.
CouponTable ==
  [k0 |-> [vendor |-> "v1", discount |-> 0],
   k1 |-> [vendor |-> "v1", discount |-> 10],
   k2 |-> [vendor |-> "v2", discount |-> 50],
   k3 |-> [vendor |-> "v1", discount |-> 100]]
CouponCodes == DOMAIN CouponTable

Adapters == {"Stripe", "PayPal", "Razorpay", "Paystack", "Flutterwave"}

VARIABLES
  cart,                  \* Cart table: set of rows
  session,               \* request.session['cart_id']
  products,              \* Product table, the columns a vendor edits: per product id
  orders,                \* Order table: sequence of rows, order_id = index
  orderVendors,          \* Order.vendors (many-to-many), per order
  orderCart,             \* per order, the cart_id create_order built it from
  orderCoupons,          \* Order.coupons (many-to-many), per order
  items,                 \* OrderItem table: sequence of rows, item_id = index
  itemCoupons,           \* OrderItem.coupon (many-to-many), per item
  customerNotifications, \* customer Notifications rows, counted per paying order
  vendorNotifications,   \* vendor Notifications rows, per paying order and vendor
  outbox,                \* e-mails sent, per paying order and recipient
  req,                   \* per worker: the request in flight and its locals
  served                 \* what has been served so far: requests by kind,
                         \* the Cart rows inserted (the table's id sequence),
                         \* the orders whose e-mail dispatch raised, and the
                         \* (order, coupon) pairs of the coupon_apply requests
                         \* that ran to their end

vars == << cart, session, products, orders, orderVendors, orderCart, orderCoupons, items, itemCoupons,
           customerNotifications, vendorNotifications, outbox, req, served >>

cartVars   == << cart, session, products >>
orderVars  == << orders, orderVendors, orderCart, orderCoupons, items, itemCoupons >>
effectVars == << customerNotifications, vendorNotifications, outbox >>

Idle       == [op |-> "idle", pc |-> "idle"]

OrderIds   == 1..MaxOrders
Recipients == {Customer} \cup Vendors

\* The tables before the first request; ids are the order ids the
\* notification and e-mail counts are kept for.
InitFor(ids) ==
  /\ cart = {}
  /\ session = NoCart
  /\ products = [id \in ProductIds |->
                   [price |-> Catalog[id].price, shipping |-> Catalog[id].shipping,
                    stock |-> Catalog[id].stock]]
  /\ orders = << >>
  /\ orderVendors = << >>
  /\ orderCart = << >>
  /\ orderCoupons = << >>
  /\ items = << >>
  /\ itemCoupons = << >>
  /\ customerNotifications = [o \in ids |-> 0]
  /\ vendorNotifications = [o \in ids |-> [v \in Vendors |-> 0]]
  /\ outbox = [o \in ids |-> [r \in Recipients |-> 0]]
  /\ req = [w \in Workers |-> Idle]
  /\ served = [callbacks |-> 0, coupons |-> 0, updates |-> 0, cartRows |-> 0,
               failed |-> {}, applied |-> {}]

Init == InitFor(OrderIds)

\* A request is taken by the first free worker (the workers are alike).
Free(w) == req[w] = Idle /\ \A u \in Workers : u < w => req[u] # Idle

\* A view returns: its worker becomes free.
Return(w) == req' = [req EXCEPT ![w] = Idle]

\* ------------------------------------------------------------------ cart
RECURSIVE SumSubTotal(_)
SumSubTotal(S) ==
  IF S = {} THEN 0
  ELSE LET l == CHOOSE x \in S : TRUE IN l.sub_total + SumSubTotal(S \ {l})

RECURSIVE SumShipping(_)
SumShipping(S) ==
  IF S = {} THEN 0
  ELSE LET l == CHOOSE x \in S : TRUE IN l.shipping + SumShipping(S \ {l})

\* Rows of a queryset in primary-key order.
RECURSIVE InPkOrder(_)
InPkOrder(S) ==
  IF S = {} THEN << >>
  ELSE LET l == CHOOSE x \in S : \A y \in S : x.id <= y.id
       IN << l >> \o InPkOrder(S \ {l})

CartLines(cart_id) == {l \in cart : l.cart_id = cart_id}

\* Primary key of a new Cart row (auto-increment: keys are not reused).
NewCartPk == served.cartRows + 1

\* CartRow with sub_total = product.price, not multiplied by qty.
CartRowUnitSubTotal(pk, cart_id, id, qty, color, size) ==
  [id |-> pk, cart_id |-> cart_id, product |-> id, qty |-> qty,
   color |-> color, size |-> size,
   price |-> products[id].price,
   sub_total |-> products[id].price,
   shipping |-> products[id].shipping * qty,
   total |-> products[id].price + products[id].shipping * qty]

CartRow(pk, cart_id, id, qty, color, size) ==
  [id |-> pk, cart_id |-> cart_id, product |-> id, qty |-> qty,
   color |-> color, size |-> size,
   price |-> products[id].price,
   sub_total |-> products[id].price * qty,
   shipping |-> products[id].shipping * qty,
   total |-> products[id].price * qty + products[id].shipping * qty]

Published(id) == id \in ProductIds /\ Catalog[id].status = "Published"

\* The lookup of the line to update, by the cart the session named before
\* this request.
ExistingInSessionCart(cart_id, id) == {l \in cart : l.cart_id = session /\ l.product = id}

\* Cart.objects.filter(cart_id=cart_id, product=product)
ExistingCartItem(cart_id, id) == {l \in cart : l.cart_id = cart_id /\ l.product = id}

\* add_to_cart_result without the stock test.
add_to_cart_result_unchecked(cart_id, id, qty) ==
  IF cart_id = NoCart THEN "error_400"
  ELSE IF ~Published(id) THEN "product_not_found"
  ELSE IF ExistingCartItem(cart_id, id) = {} THEN "added"
  ELSE "updated"

\* The response of add_to_cart.
add_to_cart_result(cart_id, id, qty) ==
  IF cart_id = NoCart THEN "error_400"
  ELSE IF ~Published(id) THEN "product_not_found"
  ELSE IF qty > products[id].stock THEN "qty_exceeds_stock"
  ELSE IF ExistingCartItem(cart_id, id) = {} THEN "added"
  ELSE "updated"

add_to_cart(cart_id, id, qty, color, size) ==
  /\ session' = cart_id
  /\ UNCHANGED << products, orderVars, effectVars, req >>
  /\ LET result   == add_to_cart_result(cart_id, id, qty)
         existing == ExistingCartItem(cart_id, id)
     IN IF result = "added"
          THEN /\ served.cartRows < MaxLines
               /\ cart' = cart \cup {CartRow(NewCartPk, cart_id, id, qty, color, size)}
               /\ served' = [served EXCEPT !.cartRows = @ + 1]
        ELSE IF result = "updated"
          THEN LET e == CHOOSE l \in existing : \A y \in existing : l.id <= y.id
               IN /\ cart' = (cart \ {e}) \cup {CartRow(e.id, cart_id, id, qty, color, size)}
                  /\ UNCHANGED served
        ELSE UNCHANGED << cart, served >>

\* The response of delete_cart_item ("exception": Cart.DoesNotExist).
delete_cart_item_result(id, item_id, cart_id) ==
  IF ~Published(id) THEN "product_not_found"
  ELSE IF {l \in cart : l.product = id /\ l.id = item_id} = {} THEN "exception"
  ELSE "deleted"

delete_cart_item(id, item_id, cart_id) ==
  /\ UNCHANGED << session, products, orderVars, effectVars, req, served >>
  /\ IF delete_cart_item_result(id, item_id, cart_id) = "deleted"
       THEN cart' = cart \ {l \in cart : l.product = id /\ l.id = item_id}
       ELSE UNCHANGED cart

clear_cart_items(c) == {l \in c : l.cart_id # session}

\* "{:,.2f}".format(amount): the units and the two decimals of an amount.
Format2f(amount) == << amount \div 100, amount % 100 >>

\* What add_to_cart reports after its write, read from table c:
\* Cart.objects.filter(cart_id=cart_id).count() and the formatted
\* aggregate(Sum("sub_total")), which is None over no rows ("exception":
\* None cannot be formatted).
add_to_cart_response(c, cart_id) ==
  LET rows == {l \in c : l.cart_id = cart_id}
  IN [total_cart_items |-> Cardinality(rows),
      cart_sub_total   |-> IF rows = {} THEN "exception"
                           ELSE Format2f(SumSubTotal(rows))]

\* What delete_cart_item reports after its delete, read from table c:
\* "{:,.2f}".format(cart_sub_total) if cart_sub_total else 0.00
delete_cart_item_response(c, cart_id) ==
  LET rows == {l \in c : l.cart_id = cart_id}
  IN [total_cart_items |-> Cardinality(rows),
      cart_sub_total   |-> IF rows = {} \/ SumSubTotal(rows) = 0 THEN << 0, 0 >>
                           ELSE Format2f(SumSubTotal(rows))]

\* ----------------------------------------------------------------- order
tax_calculation(country, amount) == (amount * 10) \div 100

calculate_service_fee(amount) == (amount * 2) \div 100

OrderItemRow(o, l) ==
  [order |-> o, product |-> l.product, vendor |-> Catalog[l.product].vendor,
   qty |-> l.qty, color |-> l.color, size |-> l.size,
   price |-> l.price, sub_total |-> l.sub_total,
   shipping |-> l.shipping, tax |-> tax_calculation("country", l.sub_total),
   total |-> l.total, initial_total |-> l.total, saved |-> 0,
   order_status |-> "Pending", shipping_service |-> NoValue, tracking_id |-> NoValue]

\* The response of create_order ("exception": the address is None, or the
\* sums over an empty cart are None).
create_order_result(address) ==
  IF address = "absent" THEN "redirect_cart"
  ELSE IF address = "unknown" \/ CartLines(session) = {} THEN "exception"
  ELSE "redirect_checkout"

\* The Order row built from the aggregates over the cart's lines.
OrderRow(lines) ==
  LET sub  == SumSubTotal(lines)
      ship == SumShipping(lines)
      tax  == tax_calculation("country", sub)
      fee  == calculate_service_fee(sub + ship + tax)
  IN [sub_total |-> sub, shipping |-> ship, tax |-> tax,
      service_fee |-> fee, total |-> sub + ship + tax + fee,
      saved |-> 0, payment_status |-> "Processing",
      payment_method |-> NoValue, order_status |-> "Pending"]

\* create_order served without another request in between, while the Order
\* table has fewer than limit rows.
create_order_upto(limit, address) ==
  /\ Len(orders) < limit
  /\ UNCHANGED << cartVars, effectVars, req, served >>
  /\ IF create_order_result(address) = "redirect_checkout"
       THEN LET lines == CartLines(session)
                o     == Len(orders) + 1
                snap  == InPkOrder(lines)
            IN /\ orders' = Append(orders, OrderRow(lines))
               /\ items' = items \o [k \in 1..Len(snap) |-> OrderItemRow(o, snap[k])]
               /\ itemCoupons' = itemCoupons \o [k \in 1..Len(snap) |-> {}]
               /\ orderVendors' = Append(orderVendors,
                                         {Catalog[l.product].vendor : l \in lines})
               /\ orderCart' = Append(orderCart, session)
               /\ orderCoupons' = Append(orderCoupons, {})
       ELSE UNCHANGED orderVars

create_order(address) == create_order_upto(MaxOrders, address)

\* create_order up to order.save(): the address and the session's cart_id are
\* read, the two aggregates computed and the Order row inserted.  The request
\* keeps the cart_id for its items queryset (not yet evaluated) and,
\* for reference, the lines the aggregates were taken over.
create_order_save(w, address) ==
  /\ Free(w)
  /\ Len(orders) < MaxOrders
  /\ create_order_result(address) = "redirect_checkout"
  /\ orders' = Append(orders, OrderRow(CartLines(session)))
  /\ orderVendors' = Append(orderVendors, {})
  /\ orderCart' = Append(orderCart, session)
  /\ orderCoupons' = Append(orderCoupons, {})
  /\ req' = [req EXCEPT ![w] = [op |-> "create_order", pc |-> "items",
                                 oid |-> Len(orders) + 1, cart_id |-> session,
                                 summed |-> CartLines(session)]]
  /\ UNCHANGED << cartVars, items, itemCoupons, effectVars, served >>

\* create_order, "for i in items": the queryset is evaluated now, one
\* OrderItem is created per line found and its vendor added to the order.
create_order_items(w) ==
  /\ req[w].op = "create_order"
  /\ LET o     == req[w].oid
         lines == CartLines(req[w].cart_id)
         snap  == InPkOrder(lines)
     IN /\ items' = items \o [k \in 1..Len(snap) |-> OrderItemRow(o, snap[k])]
        /\ itemCoupons' = itemCoupons \o [k \in 1..Len(snap) |-> {}]
        /\ orderVendors' = [orderVendors EXCEPT ![o] =
                              {Catalog[l.product].vendor : l \in lines}]
  /\ Return(w)
  /\ UNCHANGED << cartVars, orders, orderCart, orderCoupons, effectVars, served >>

\* Order.order_items(): the ids of an order's items.
order_items(o) == {i \in 1..Len(items) : items[i].order = o}

\* ---------------------------------------------------------------- coupon
\* The response of coupon_apply up to the membership test; "apply" when the
\* view goes on to the items.
coupon_apply_result(o, coupon_code) ==
  IF o \notin 1..Len(orders) THEN "order_not_found"
  ELSE IF coupon_code = "" THEN "no_coupon_entered"
  ELSE IF coupon_code \notin CouponCodes THEN "coupon_does_not_exist"
  ELSE IF coupon_code \in orderCoupons[o] THEN "already_activated"
  ELSE "apply"

\* coupon_apply, first part: load the order, look the coupon up and test
\* membership in order.coupons.
coupon_apply(w, o, coupon_code) ==
  /\ Free(w)
  /\ UNCHANGED << cartVars, orderVars, effectVars >>
  /\ IF coupon_apply_result(o, coupon_code) = "apply"
       THEN /\ req' = [req EXCEPT ![w] =
                         [op |-> "coupon_apply", pc |-> "discount", oid |-> o,
                          order |-> orders[o], coupon |-> coupon_code,
                          total_discount |-> 0, todo |-> << >>, rows |-> << >>,
                          hit |-> {}]]
            /\ served' = [served EXCEPT !.coupons = @ + 1]
       ELSE UNCHANGED << req, served >>

\* The ids of a set of rows, in primary-key order.
RECURSIVE Ascending(_)
Ascending(S) ==
  IF S = {} THEN << >>
  ELSE LET i == CHOOSE x \in S : \A y \in S : x <= y
       IN << i >> \o Ascending(S \ {i})

\* coupon_apply, "for item in order_items": the queryset is evaluated here,
\* every item of the order is read into memory.
coupon_apply_items(w) ==
  /\ req[w].op = "coupon_apply"
  /\ req[w].pc = "discount"
  /\ LET ids == Ascending(order_items(req[w].oid))
     IN req' = [req EXCEPT ![w].pc = "loop",
                           ![w].todo = ids,
                           ![w].rows = [k \in 1..Len(ids) |-> items[ids[k]]]]
  /\ UNCHANGED << cartVars, orderVars, effectVars, served >>

\* Eligible without the vendor test.
EligibleAnyVendor(i, row, code) == code \notin itemCoupons[i]

\* coupon.vendor == item.product.vendor and coupon not in item.coupon.all()
Eligible(i, row, code) ==
  /\ CouponTable[code].vendor = Catalog[row.product].vendor
  /\ code \notin itemCoupons[i]

\* item_discount = item.total * coupon.discount / 100 (the catalogue's prices
\* make every discount a whole number of cents)
ItemDiscount(row, code) == (row.total * CouponTable[code].discount) \div 100

\* ItemDiscounted without item.saved += item_discount.
ItemDiscountedTotalOnly(row, d) == [row EXCEPT !.total = @ - d]

\* item.total -= item_discount; item.saved += item_discount
ItemDiscounted(row, d) == [row EXCEPT !.total = @ - d, !.saved = @ + d]

\* coupon_apply, one turn of the loop: the item read at the loop's start is
\* tested, and if eligible gets the coupon and is saved (every column, from
\* the in-memory item).  hit remembers which turns took the branch.
coupon_apply_item(w) ==
  /\ req[w].op = "coupon_apply"
  /\ req[w].pc = "loop"
  /\ req[w].todo # << >>
  /\ LET i    == Head(req[w].todo)
         row  == Head(req[w].rows)
         code == req[w].coupon
         d    == ItemDiscount(row, code)
     IN IF Eligible(i, row, code)
          THEN /\ itemCoupons' = [itemCoupons EXCEPT ![i] = @ \cup {code}]
               /\ items' = [items EXCEPT ![i] = ItemDiscounted(row, d)]
               /\ req' = [req EXCEPT ![w].todo = Tail(@),
                                     ![w].rows = Tail(@),
                                     ![w].total_discount = @ + d,
                                     ![w].hit = @ \cup {i}]
          ELSE /\ UNCHANGED << items, itemCoupons >>
               /\ req' = [req EXCEPT ![w].todo = Tail(@), ![w].rows = Tail(@)]
  /\ UNCHANGED << cartVars, orders, orderVendors, orderCart, orderCoupons, effectVars, served >>

\* OrderDiscounted without order.sub_total -= total_discount.
OrderDiscountedTotalOnly(order, td) == [order EXCEPT !.total = @ - td, !.saved = @ + td]

\* order.total -= total_discount; order.sub_total -= total_discount;
\* order.saved += total_discount
OrderDiscounted(order, td) ==
  [order EXCEPT !.total = @ - td, !.sub_total = @ - td, !.saved = @ + td]

\* if total_discount > 0
HasDiscount(td) == td > 0

\* coupon_apply, after the loop: record the coupon on the order and save the
\* in-memory order object.
coupon_apply_order(w) ==
  /\ req[w].op = "coupon_apply"
  /\ req[w].pc = "loop"
  /\ req[w].todo = << >>
  /\ LET o  == req[w].oid
         td == req[w].total_discount
     IN /\ IF HasDiscount(td)
             THEN /\ orderCoupons' = [orderCoupons EXCEPT ![o] = @ \cup {req[w].coupon}]
                  /\ orders' = [orders EXCEPT ![o] = OrderDiscounted(req[w].order, td)]
             ELSE UNCHANGED << orders, orderCoupons >>
        /\ served' = [served EXCEPT !.applied = @ \cup {<< o, req[w].coupon >>}]
  /\ Return(w)
  /\ UNCHANGED << cartVars, orderVendors, orderCart, items, itemCoupons, effectVars >>

\* ----------------------------------------------------- vendor dashboard
\* VendorOrder without payment_status="Paid".
VendorOrderAnyStatus(v, o) ==
  /\ o \in 1..Len(orders)
  /\ v \in orderVendors[o]

\* Order.objects.get(vendors=request.user, order_id=..., payment_status="Paid")
VendorOrder(v, o) ==
  /\ o \in 1..Len(orders)
  /\ v \in orderVendors[o]
  /\ orders[o].payment_status = "Paid"

update_order_status(v, o, order_status) ==
  /\ UNCHANGED << cartVars, orderVendors, orderCart, orderCoupons, items, itemCoupons,
                  effectVars, req, served >>
  /\ IF VendorOrder(v, o)
       THEN orders' = [orders EXCEPT ![o].order_status = order_status]
       ELSE UNCHANGED orders

update_order_item_status(v, o, item_id, order_status, shipping_service, tracking_id) ==
  /\ UNCHANGED << cartVars, orders, orderVendors, orderCart, orderCoupons, itemCoupons,
                  effectVars, req, served >>
  /\ IF VendorOrder(v, o) /\ item_id \in order_items(o)
       THEN items' = [items EXCEPT ![item_id].order_status = order_status,
                                   ![item_id].shipping_service = shipping_service,
                                   ![item_id].tracking_id = tracking_id]
       ELSE UNCHANGED items

\* OrderItem.item_id, the public reference of an item, per item row.
ItemRefs == [i \in 1..MaxLines |-> IF i = 1 THEN "i1" ELSE "i2"]

\* order_tracker_detail: the first item whose item_id or tracking_id is the
\* value asked for; filter(...).first() gives None when there is none and
\* does not raise, so the view always renders, with that item or with None
\* (0 here).
order_tracker_detail(item_id) ==
  LET found == {i \in 1..Len(items) :
                  ItemRefs[i] = item_id \/ items[i].tracking_id = item_id}
  IN [outcome |-> "rendered",
      item    |-> IF found = {} THEN 0
                  ELSE CHOOSE i \in found : \A j \in found : i <= j]

\* The response of update_product ("not_found": get_object_or_404).
update_product_result(v, id) ==
  IF id \in ProductIds /\ Catalog[id].vendor = v THEN "updated" ELSE "not_found"

\* update_product (POST): the vendor's own product gets the posted price,
\* shipping and stock.
update_product(v, id, price, shipping, stock) ==
  /\ UNCHANGED << cart, session, orderVars, effectVars, req >>
  /\ IF update_product_result(v, id) = "updated"
       THEN /\ products' = [products EXCEPT ![id] =
                              [price |-> price, shipping |-> shipping, stock |-> stock]]
            /\ served' = [served EXCEPT !.updates = @ + 1]
       ELSE UNCHANGED << products, served >>

\* ----------------------------------------------- payment verification
\* What a callback carries and what the provider answers when asked:
\*   method      request.method
\*   reference   the reference query parameter is present
\*   fault       the provider call raises (timeout / connection error, token
\*               request refused, signature mismatch), or "none"
\*   status_code HTTP status of the provider's answer
\*   api_status  Paystack's top-level status flag
\*   status      the provider's payment status field
Answer(method, reference, fault, status_code, api_status, status) ==
  [method |-> method, reference |-> reference, fault |-> fault,
   status_code |-> status_code, api_status |-> api_status, status |-> status]

StripeAnswers ==
  { Answer("GET", TRUE, "none", 200, TRUE, "paid"),
    Answer("GET", TRUE, "none", 200, TRUE, "unpaid"),
    Answer("GET", TRUE, "timeout", 0, FALSE, "none") }

PayPalAnswers ==
  { Answer("GET", TRUE, "none", 200, TRUE, "COMPLETED"),
    Answer("GET", TRUE, "none", 200, TRUE, "PENDING"),
    Answer("GET", TRUE, "none", 404, FALSE, "none"),
    Answer("GET", TRUE, "token", 401, FALSE, "none"),
    Answer("GET", TRUE, "timeout", 0, FALSE, "none") }

RazorpayAnswers ==
  { Answer("POST", TRUE, "none", 200, TRUE, "captured"),
    Answer("POST", TRUE, "signature", 0, FALSE, "none"),
    Answer("GET", TRUE, "none", 0, FALSE, "none") }

PaystackAnswers ==
  { Answer("GET", TRUE, "none", 200, TRUE, "success"),
    Answer("GET", TRUE, "none", 200, TRUE, "failed"),
    Answer("GET", TRUE, "none", 400, FALSE, "none"),
    Answer("GET", TRUE, "timeout", 0, FALSE, "none"),
    Answer("GET", FALSE, "none", 0, FALSE, "none") }

FlutterwaveAnswers ==
  { Answer("GET", TRUE, "none", 200, TRUE, "successful"),
    Answer("GET", TRUE, "none", 200, TRUE, "failed"),
    Answer("GET", TRUE, "none", 400, FALSE, "none"),
    Answer("GET", TRUE, "timeout", 0, FALSE, "none") }

Answers(adapter) ==
  CASE adapter = "Stripe"      -> StripeAnswers
    [] adapter = "PayPal"      -> PayPalAnswers
    [] adapter = "Razorpay"    -> RazorpayAnswers
    [] adapter = "Paystack"    -> PaystackAnswers
    [] adapter = "Flutterwave" -> FlutterwaveAnswers

\* Values of the payment_method query parameter.
PaymentMethods == {"Online"}

\* First statement of each of the five verification views:
\* order = Order.objects.get(order_id=order_id).  Which view the request is
\* for shows from its next step on.
load_order(w, o) ==
  /\ Free(w)
  /\ o \in 1..Len(orders)
  /\ served' = [served EXCEPT !.callbacks = @ + 1]
  /\ req' = [req EXCEPT ![w] =
               [op |-> "verify", pc |-> "loaded", oid |-> o, order |-> orders[o]]]
  /\ UNCHANGED << cartVars, orderVars, effectVars >>

\* The same statement together with the read of the provider reference the
\* callback URL carries (session_id, transaction_id, reference, tx_ref).
load_order_reference(w, o, reference) ==
  /\ Free(w)
  /\ o \in 1..Len(orders)
  /\ served' = [served EXCEPT !.callbacks = @ + 1]
  /\ req' = [req EXCEPT ![w] =
               [op |-> "verify", pc |-> "loaded", oid |-> o, order |-> orders[o],
                reference |-> reference]]
  /\ UNCHANGED << cartVars, orderVars, effectVars >>

Loaded(w) == req[w].op = "verify" /\ req[w].pc = "loaded"

\* IsProcessing without the test: the view commits whatever the order's state.
IsProcessingUnguarded(order) == order.payment_status \in {"Processing", "Paid"}

\* order.payment_status == "Processing", tested on the in-memory object.
IsProcessing(order) == order.payment_status = "Processing"

\* The outcome of each view for a provider answer a and the loaded order:
\*   "paid"      save the order, run the side effects, redirect ...=paid
\*   "failed"    redirect ...=failed
\*   "none"      the view returns no response
\*   "exception" the view raises
stripe_result(a, order) ==
  IF a.fault # "none" THEN "exception"
  ELSE IF a.status = "paid" /\ IsProcessing(order) THEN "paid"
  ELSE "failed"

paypal_result(a, order) ==
  IF a.fault # "none" THEN "exception"
  ELSE IF a.status_code = 200
    THEN IF a.status = "COMPLETED" /\ IsProcessing(order) THEN "paid" ELSE "none"
  ELSE "failed"

razorpay_result(a, order) ==
  IF a.method = "POST"
    THEN IF a.fault # "none" THEN "exception"
         ELSE IF IsProcessing(order) THEN "paid"
         ELSE "failed"
  ELSE "failed"

paystack_result(a, order) ==
  IF a.reference
    THEN IF a.fault # "none" THEN "exception"
         ELSE IF a.api_status
           THEN IF a.status = "success"
                  THEN IF IsProcessing(order) THEN "paid" ELSE "failed"
                  ELSE "failed"
         ELSE "failed"
  ELSE "failed"

flutterwave_result(a, order) ==
  IF a.fault # "none" THEN "exception"
  ELSE IF a.status_code = 200
    THEN IF IsProcessing(order) THEN "paid" ELSE "failed"
  ELSE "failed"

\* urls.py: the view each verification URL is routed to.
view_result(adapter, a, order) ==
  CASE adapter = "Stripe"      -> stripe_result(a, order)
    [] adapter = "PayPal"      -> paypal_result(a, order)
    [] adapter = "Razorpay"    -> razorpay_result(a, order)
    [] adapter = "Paystack"    -> paystack_result(a, order)
    [] adapter = "Flutterwave" -> flutterwave_result(a, order)

\* order.save() of the in-memory object; the view goes on to its side
\* effects.
SavePaid(w, adapter, a, order) ==
  /\ orders' = [orders EXCEPT ![req[w].oid] = order]
  /\ req' = [req EXCEPT ![w] = [op |-> adapter, pc |-> "effects",
                                oid |-> req[w].oid, resp |-> a]]

AtEffects(w, adapter) == req[w].op = adapter /\ req[w].pc = "effects"

Finish(w) ==
  /\ Return(w)
  /\ UNCHANGED orders

verifyFrame == << cartVars, orderVendors, orderCart, orderCoupons, items, itemCoupons,
                 effectVars, served >>

stripe_payment_verify(w, a) ==
  /\ Loaded(w)
  /\ UNCHANGED verifyFrame
  /\ IF stripe_result(a, req[w].order) = "paid"
       THEN SavePaid(w, "Stripe", a, [req[w].order EXCEPT !.payment_status = "Paid"])
       ELSE Finish(w)

\* clear_cart_items, the customer notification, the customer e-mail and one
\* vendor e-mail per order item.
stripe_side_effects(w) ==
  /\ AtEffects(w, "Stripe")
  /\ LET o == req[w].oid IN
     /\ cart' = clear_cart_items(cart)
     /\ customerNotifications' = [customerNotifications EXCEPT ![o] = @ + 1]
     /\ outbox' = [outbox EXCEPT ![o] =
                     [r \in Recipients |->
                        outbox[o][r] + (IF r = Customer THEN 1 ELSE 0)
                        + Cardinality({i \in order_items(o) : items[i].vendor = r})]]
  /\ Return(w)
  /\ UNCHANGED << session, products, orderVars, vendorNotifications, served >>

\* stripe_payment_verify when a msg.send() raises: the cart is cleared and the
\* notification created; either the customer e-mail raised and nothing was
\* sent, or it was sent and the vendor e-mails of the items in sent went out
\* before one of the others raised.  The exception leaves the view; nothing
\* is undone.
stripe_dispatch_failure(w, customer_sent, sent) ==
  /\ AtEffects(w, "Stripe")
  /\ LET o == req[w].oid IN
     /\ sent \subseteq order_items(o)
     /\ sent # order_items(o)
     /\ ~customer_sent => sent = {}
     /\ cart' = clear_cart_items(cart)
     /\ customerNotifications' = [customerNotifications EXCEPT ![o] = @ + 1]
     /\ outbox' = [outbox EXCEPT ![o] =
                     [r \in Recipients |->
                        outbox[o][r] + (IF r = Customer /\ customer_sent THEN 1 ELSE 0)
                        + Cardinality({i \in sent : items[i].vendor = r})]]
     /\ served' = [served EXCEPT !.failed = @ \cup {o}]
  /\ Return(w)
  /\ UNCHANGED << session, products, orderVars, vendorNotifications >>

paypal_payment_verify(w, a, payment_method) ==
  /\ Loaded(w)
  /\ UNCHANGED verifyFrame
  /\ IF paypal_result(a, req[w].order) = "paid"
       THEN SavePaid(w, "PayPal", a, [req[w].order EXCEPT
                                  !.payment_status = "Paid",
                                  !.payment_method = payment_method])
       ELSE Finish(w)

razorpay_payment_verify(w, a, payment_method) ==
  /\ Loaded(w)
  /\ UNCHANGED verifyFrame
  /\ IF razorpay_result(a, req[w].order) = "paid"
       THEN SavePaid(w, "Razorpay", a, [req[w].order EXCEPT
                                          !.payment_status = "Paid",
                                          !.payment_method = payment_method])
       ELSE Finish(w)

\* clear_cart_items, the customer notification and one vendor notification
\* per order item.
razorpay_side_effects(w) ==
  /\ AtEffects(w, "Razorpay")
  /\ LET o == req[w].oid IN
     /\ cart' = clear_cart_items(cart)
     /\ customerNotifications' = [customerNotifications EXCEPT ![o] = @ + 1]
     /\ vendorNotifications' = [vendorNotifications EXCEPT ![o] =
                     [v \in Vendors |->
                        vendorNotifications[o][v]
                        + Cardinality({i \in order_items(o) : items[i].vendor = v})]]
  /\ Return(w)
  /\ UNCHANGED << session, products, orderVars, outbox, served >>

paystack_payment_verify(w, a, payment_method) ==
  /\ Loaded(w)
  /\ UNCHANGED verifyFrame
  /\ IF paystack_result(a, req[w].order) = "paid"
       THEN SavePaid(w, "Paystack", a, [req[w].order EXCEPT
                                  !.payment_status = "Paid",
                                  !.payment_method = payment_method])
       ELSE Finish(w)

flutterwave_payment_callback(w, a, payment_method) ==
  /\ Loaded(w)
  /\ UNCHANGED verifyFrame
  /\ IF flutterwave_result(a, req[w].order) = "paid"
       THEN SavePaid(w, "Flutterwave", a, [req[w].order EXCEPT
                                  !.payment_status = "Paid",
                                  !.payment_method = payment_method])
       ELSE Finish(w)

\* PayPal, Paystack and Flutterwave: clear_cart_items, then the paid redirect.
clear_cart_and_redirect(w) ==
  /\ \E adapter \in {"PayPal", "Paystack", "Flutterwave"} : AtEffects(w, adapter)
  /\ cart' = clear_cart_items(cart)
  /\ Return(w)
  /\ UNCHANGED << session, products, orderVars, effectVars, served >>

\* ------------------------------------------------------------ the system
Qtys == 1..MaxQty

\* The run that Spec follows: the customer fills and edits carts, checks out,
\* and leaves the carts alone while the order is paid, discounted and
\* fulfilled.
BeforeCheckout == Len(orders) = 0

Next ==
  \/ /\ BeforeCheckout
     /\ \E c \in CartIds \cup {NoCart}, id \in ProductIds, q \in Qtys :
          add_to_cart(c, id, q, "Red", "M")
  \/ /\ BeforeCheckout
     /\ \E id \in ProductIds, pk \in 1..MaxLines, c \in CartIds : delete_cart_item(id, pk, c)
  \/ \E ad \in {"a1", "absent", "unknown"} : create_order(ad)
  \/ /\ served.coupons < MaxCouponApplies
     /\ \E w \in Workers, o \in OrderIds, k \in {"k1", "k2", "", "bogus"} : coupon_apply(w, o, k)
  \/ \E w \in Workers : coupon_apply_items(w)
  \/ \E w \in Workers : coupon_apply_item(w)
  \/ \E w \in Workers : coupon_apply_order(w)
  \/ \E v \in Vendors, o \in OrderIds : update_order_status(v, o, "Shipped")
  \/ \E v \in Vendors, o \in OrderIds, i \in 1..MaxLines :
        update_order_item_status(v, o, i, "Shipped", "DHL", "t1")
  \/ /\ served.callbacks < MaxCallbacks
     /\ \E w \in Workers, o \in OrderIds : load_order(w, o)
  \/ \E w \in Workers, a \in StripeAnswers : stripe_payment_verify(w, a)
  \/ \E w \in Workers : stripe_side_effects(w)
  \/ \E w \in Workers, a \in PayPalAnswers, pm \in PaymentMethods :
        paypal_payment_verify(w, a, pm)
  \/ \E w \in Workers, a \in RazorpayAnswers, pm \in PaymentMethods :
        razorpay_payment_verify(w, a, pm)
  \/ \E w \in Workers : razorpay_side_effects(w)
  \/ \E w \in Workers, a \in PaystackAnswers, pm \in PaymentMethods :
        paystack_payment_verify(w, a, pm)
  \/ \E w \in Workers, a \in FlutterwaveAnswers, pm \in PaymentMethods :
        flutterwave_payment_callback(w, a, pm)
  \/ \E w \in Workers : clear_cart_and_redirect(w)

Spec == Init /\ [][Next]_vars

\* The customer goes on filling carts after checkout, while the order is paid.
NextCart ==
  \/ \E c \in CartIds \cup {NoCart}, id \in ProductIds, q \in Qtys :
          add_to_cart(c, id, q, "Red", "M")
  \/ \E ad \in {"a1", "absent", "unknown"} : create_order(ad)
  \/ /\ served.callbacks < MaxCallbacks
     /\ \E w \in Workers, o \in OrderIds : load_order(w, o)
  \/ \E w \in Workers, a \in StripeAnswers : stripe_payment_verify(w, a)
  \/ \E w \in Workers : stripe_side_effects(w)
  \/ \E w \in Workers, a \in PayPalAnswers, pm \in PaymentMethods :
        paypal_payment_verify(w, a, pm)
  \/ \E w \in Workers, a \in RazorpayAnswers, pm \in PaymentMethods :
        razorpay_payment_verify(w, a, pm)
  \/ \E w \in Workers : razorpay_side_effects(w)
  \/ \E w \in Workers, a \in PaystackAnswers, pm \in PaymentMethods :
        paystack_payment_verify(w, a, pm)
  \/ \E w \in Workers, a \in FlutterwaveAnswers, pm \in PaymentMethods :
        flutterwave_payment_callback(w, a, pm)
  \/ \E w \in Workers : clear_cart_and_redirect(w)

SpecCart == Init /\ [][NextCart]_vars

\* Payment through Stripe with e-mail dispatch that may raise, while a coupon
\* is applied.
NextDispatch ==
  \/ /\ BeforeCheckout
     /\ \E c \in CartIds \cup {NoCart}, id \in ProductIds, q \in Qtys :
          add_to_cart(c, id, q, "Red", "M")
  \/ \E ad \in {"a1", "absent", "unknown"} : create_order(ad)
  \/ /\ served.coupons < MaxCouponApplies
     /\ \E w \in Workers, o \in OrderIds, k \in CouponCodes : coupon_apply(w, o, k)
  \/ \E w \in Workers : coupon_apply_items(w)
  \/ \E w \in Workers : coupon_apply_item(w)
  \/ \E w \in Workers : coupon_apply_order(w)
  \/ /\ served.callbacks < MaxCallbacks
     /\ \E w \in Workers, o \in OrderIds : load_order(w, o)
  \/ \E w \in Workers, a \in StripeAnswers : stripe_payment_verify(w, a)
  \/ \E w \in Workers : stripe_side_effects(w)
  \/ \E w \in Workers, cs \in BOOLEAN, sent \in SUBSET (1..MaxLines) :
        stripe_dispatch_failure(w, cs, sent)

SpecDispatch == Init /\ [][NextDispatch]_vars

\* Checkout followed by coupon_apply requests, served in parallel.
NextCoupon ==
  \/ /\ BeforeCheckout
     /\ \E c \in CartIds \cup {NoCart}, id \in ProductIds, q \in Qtys :
          add_to_cart(c, id, q, "Red", "M")
  \/ \E ad \in {"a1", "absent", "unknown"} : create_order(ad)
  \/ /\ served.coupons < MaxCouponRuns
     /\ \E w \in Workers, o \in OrderIds, k \in CouponCodes \cup {"", "bogus"} :
          coupon_apply(w, o, k)
  \/ \E w \in Workers : coupon_apply_items(w)
  \/ \E w \in Workers : coupon_apply_item(w)
  \/ \E w \in Workers : coupon_apply_order(w)

SpecCoupon == Init /\ [][NextCoupon]_vars

\* No request is in flight.
AllIdle == \A w \in Workers : req[w] = Idle

\* Checkout followed by coupon_apply requests, each issued after the one
\* before it has returned.
NextCouponSeq ==
  \/ /\ BeforeCheckout
     /\ \E c \in CartIds \cup {NoCart}, id \in ProductIds, q \in Qtys :
          add_to_cart(c, id, q, "Red", "M")
  \/ \E ad \in {"a1", "absent", "unknown"} : create_order(ad)
  \/ /\ AllIdle
     /\ served.coupons < MaxCouponRuns
     /\ \E w \in Workers, o \in OrderIds, k \in CouponCodes \cup {"", "bogus"} :
          coupon_apply(w, o, k)
  \/ \E w \in Workers : coupon_apply_items(w)
  \/ \E w \in Workers : coupon_apply_item(w)
  \/ \E w \in Workers : coupon_apply_order(w)

SpecCouponSeq == Init /\ [][NextCouponSeq]_vars

\* What the vendors post for a product, and the variants a customer picks.
PostedPrices   == {1500}
PostedShipping == {250}
PostedStock    == {0, 1}
Variants       == {[color |-> "Red", size |-> "M"], [color |-> "Blue", size |-> "L"]}

\* Carts are filled and edited, one request after another, while vendors
\* edit their products.
NextCartEdit ==
  \/ \E c \in CartIds \cup {NoCart}, id \in ProductIds, q \in Qtys, var \in Variants :
        add_to_cart(c, id, q, var.color, var.size)
  \/ \E id \in ProductIds, pk \in 1..MaxLines, c \in CartIds : delete_cart_item(id, pk, c)
  \/ /\ served.updates < MaxProductUpdates
     /\ \E v \in Vendors, id \in ProductIds, price \in PostedPrices,
           shipping \in PostedShipping, stock \in PostedStock :
          update_product(v, id, price, shipping, stock)

SpecCartEdit == Init /\ [][NextCartEdit]_vars

\* What a vendor posts for an item.
PostedStatus   == {"Shipped"}
PostedService  == {"DHL"}
PostedTracking == {"t1"}

\* Checkout, payment through PayPal, at most one coupon request, and the
\* vendors' updates of order items.
NextVendor ==
  \/ /\ BeforeCheckout
     /\ \E c \in CartIds \cup {NoCart}, id \in ProductIds, q \in Qtys :
          add_to_cart(c, id, q, "Red", "M")
  \/ \E ad \in {"a1", "absent", "unknown"} : create_order(ad)
  \/ /\ served.coupons < MaxCouponApplies
     /\ \E w \in Workers, o \in OrderIds, k \in CouponCodes : coupon_apply(w, o, k)
  \/ \E w \in Workers : coupon_apply_items(w)
  \/ \E w \in Workers : coupon_apply_item(w)
  \/ \E w \in Workers : coupon_apply_order(w)
  \/ /\ served.callbacks < MaxCallbacks
     /\ \E w \in Workers, o \in OrderIds : load_order(w, o)
  \/ \E w \in Workers, a \in PayPalAnswers, pm \in PaymentMethods :
        paypal_payment_verify(w, a, pm)
  \/ \E w \in Workers : clear_cart_and_redirect(w)
  \/ \E v \in Vendors, o \in OrderIds, i \in 1..MaxLines, st \in PostedStatus,
         svc \in PostedService, t \in PostedTracking :
        update_order_item_status(v, o, i, st, svc, t)

SpecVendor == Init /\ [][NextVendor]_vars

\* Checkout while the cart goes on being edited: create_order in its two
\* steps, add_to_cart and delete_cart_item between them.
NextCheckout ==
  \/ \E c \in CartIds \cup {NoCart}, id \in ProductIds, q \in Qtys :
        add_to_cart(c, id, q, "Red", "M")
  \/ \E id \in ProductIds, pk \in 1..MaxLines, c \in CartIds : delete_cart_item(id, pk, c)
  \/ \E w \in Workers, ad \in {"a1", "absent", "unknown"} : create_order_save(w, ad)
  \/ \E w \in Workers : create_order_items(w)

SpecCheckout == Init /\ [][NextCheckout]_vars

\* The provider references a callback can carry: stripe_payment opens the
\* checkout session of an order, and so do the other providers' payment
\* pages; reference t is the provider transaction opened for order t.
References == 1..MaxReplayOrders

\* Two checkouts, and verification callbacks of Stripe, PayPal, Paystack and
\* Flutterwave that carry a provider reference.
NextReplay ==
  \/ /\ Len(orders) < MaxReplayOrders
     /\ \E c \in CartIds \cup {NoCart}, id \in ProductIds, q \in Qtys :
          add_to_cart(c, id, q, "Red", "M")
  \/ \E ad \in {"a1", "absent", "unknown"} : create_order_upto(MaxReplayOrders, ad)
  \/ /\ served.callbacks < MaxCallbacks
     /\ \E w \in Workers, o \in References, t \in 1..Len(orders) :
          load_order_reference(w, o, t)
  \/ \E w \in Workers, a \in StripeAnswers : stripe_payment_verify(w, a)
  \/ \E w \in Workers : stripe_side_effects(w)
  \/ \E w \in Workers, a \in PayPalAnswers, pm \in PaymentMethods :
        paypal_payment_verify(w, a, pm)
  \/ \E w \in Workers, a \in PaystackAnswers, pm \in PaymentMethods :
        paystack_payment_verify(w, a, pm)
  \/ \E w \in Workers, a \in FlutterwaveAnswers, pm \in PaymentMethods :
        flutterwave_payment_callback(w, a, pm)
  \/ \E w \in Workers : clear_cart_and_redirect(w)

SpecReplay == InitFor(References) /\ [][NextReplay]_vars

\* ================================================================ claims
\* The provider's authoritative verification reported success:
\* A session paid; B HTTP 200 and COMPLETED; C signature matches; D nested
\* status success; E HTTP 200 and provider status successful.
ProviderSuccess(adapter, a) ==
  /\ a.fault = "none"
  /\ CASE adapter = "Stripe"      -> a.status = "paid"
       [] adapter = "PayPal"      -> a.status_code = 200 /\ a.status = "COMPLETED"
       [] adapter = "Razorpay"    -> a.method = "POST"
       [] adapter = "Paystack"    -> a.reference /\ a.api_status /\ a.status = "success"
       [] adapter = "Flutterwave" -> a.status_code = 200 /\ a.status = "successful"

\* The provider call failed: it raised (timeout, connection error, refused
\* token, signature mismatch) or answered with a status other than 200.
ProviderFailure(a) ==
  \/ a.fault # "none"
  \/ a.status_code \notin {0, 200}

Paid(o) == orders[o].payment_status = "Paid"

\* A callback for order o is between its order.save() and its side effects.
Committing(w, o) == req[w].pc = "effects" /\ req[w].oid = o

\* No callback for order o is between its save and its side effects.
Settled(o) == \A w \in Workers : ~Committing(w, o)

\* C1: of the verification callbacks that run concurrently for one order at
\* most one performs the Processing->Paid transition and fires the side
\* effects: never are two of them past the save at once, and the order gets
\* at most one customer notification and one customer confirmation.
C1_AtMostOneCommit ==
  \A o \in 1..Len(orders) :
    /\ Cardinality({w \in Workers : Committing(w, o)}) <= 1
    /\ customerNotifications[o] <= 1
    /\ outbox[o][Customer] <= 1

\* C2: a callback that finds the order already Paid (it arrives after an
\* earlier callback completed) returns from its verification step without
\* creating a notification, sending a confirmation or changing the order or
\* the cart, whatever the provider answers: the totals stay those of the
\* first callback alone.
C2_RepeatedCallbackChangesNothing ==
  [][\A w \in Workers :
       (Loaded(w) /\ req[w].order.payment_status = "Paid" /\ req'[w] # req[w])
         => /\ req'[w] = Idle
            /\ customerNotifications' = customerNotifications
            /\ vendorNotifications' = vendorNotifications
            /\ outbox' = outbox
            /\ orders' = orders
            /\ cart' = cart]_vars

\* C2 witness: the first callback has completed with its notification and
\* confirmation, and a second callback has loaded the order as Paid.
C2_Witness ==
  \E w \in Workers :
    /\ Loaded(w)
    /\ req[w].order.payment_status = "Paid"
    /\ \A u \in Workers \ {w} : req[u] = Idle
    /\ customerNotifications[req[w].oid] = 1
    /\ outbox[req[w].oid][Customer] = 1

\* C3: payment_status is monotonic: no step takes an order from Paid back
\* to Processing.
C3_PaidIsFinal ==
  [][\A o \in 1..Len(orders) : Paid(o) => orders'[o].payment_status = "Paid"]_vars

\* C4: fail closed: a step that takes an order from Processing to Paid is the
\* save of a callback whose provider verification reported success.
C4_FailClosed ==
  [][\A o \in 1..Len(orders) :
       (~Paid(o) /\ orders'[o].payment_status = "Paid")
         => \E w \in Workers :
              /\ Loaded(w)
              /\ req[w].oid = o
              /\ req'[w].pc = "effects"
              /\ ProviderSuccess(req'[w].op, req'[w].resp)]_vars

\* C5: every external-provider failure is mapped to the Failed outcome and
\* the failure redirect; none ends as an unhandled fault or as success.
C5_ProviderFailureIsFailed ==
  \A w \in Workers :
    Loaded(w) =>
      \A adapter \in Adapters :
        \A a \in Answers(adapter) :
          ProviderFailure(a) => view_result(adapter, a, req[w].order) = "failed"

\* C6: a verification that does not succeed on a Processing order returns
\* Failed and leaves the order to be retried (a tampered provider C signature
\* included).
C6_FailedVerificationIsFailed ==
  \A w \in Workers :
    (Loaded(w) /\ IsProcessing(req[w].order)) =>
      \A adapter \in Adapters :
        \A a \in Answers(adapter) :
          ~ProviderSuccess(adapter, a)
            => view_result(adapter, a, req[w].order) = "failed"

\* C7: every adapter invocation, for every provider answer and order state,
\* ends with exactly one outcome, the paid or the failed redirect.
C7_ExactlyOneOutcome ==
  \A w \in Workers :
    Loaded(w) =>
      \A adapter \in Adapters :
        \A a \in Answers(adapter) :
          view_result(adapter, a, req[w].order) \in {"paid", "failed"}

\* C8: whichever adapter reports success, an order has one customer
\* notification when it is Paid and none while it is Processing.
C8_OneNotificationPerPaidOrder ==
  \A o \in 1..Len(orders) :
    Settled(o) => customerNotifications[o] = (IF Paid(o) THEN 1 ELSE 0)

\* C9: a Paid order has had one confirmation sent to the customer and one to
\* every distinct vendor among its items, also to a vendor with several items.
C9_OneConfirmationPerVendor ==
  \A o \in 1..Len(orders) :
    (Settled(o) /\ Paid(o)) =>
      /\ outbox[o][Customer] = 1
      /\ \A v \in Vendors :
           outbox[o][v] = (IF \E i \in order_items(o) : items[i].vendor = v
                             THEN 1 ELSE 0)

\* C11: the side effects of the Processing->Paid transition delete all lines
\* of the cart the order was built from and no line of another cart, also
\* when add_to_cart ran with another cart_id after create_order.
C11_ClearsOriginatingCart ==
  [][\A w \in Workers :
       (req[w].pc = "effects" /\ req'[w] = Idle)
         => cart' = {l \in cart : l.cart_id # orderCart[req[w].oid]}]_vars

\* C12: once an e-mail dispatch has failed for an order persisted as Paid, the
\* order stays Paid: neither the failing step nor any later step takes it back
\* to Processing.
C12_DispatchFailureKeepsPaid ==
  [][\A o \in 1..Len(orders) :
       (o \in served'.failed /\ Paid(o)) => orders'[o].payment_status = "Paid"]_vars

\* C13: a callback whose provider verification succeeds for an order that is
\* already Paid is answered with the paid redirect, not with the failed
\* redirect (nor with no response).
C13_AlreadyPaidIsBenign ==
  \A w \in Workers :
    (Loaded(w) /\ req[w].order.payment_status = "Paid") =>
      \A adapter \in Adapters :
        \A a \in Answers(adapter) :
          ProviderSuccess(adapter, a)
            => view_result(adapter, a, req[w].order) \notin {"failed", "none", "exception"}

\* C10: an order that is Processing has no payment_method and an order that
\* is Paid has its payment_method recorded.
C10_MethodSetWithPayment ==
  \A o \in 1..Len(orders) :
    (orders[o].payment_method # NoValue) <=> Paid(o)

\* ----------------------------------------------------------- coupon claims
RECURSIVE SumSaved(_)
SumSaved(S) ==
  IF S = {} THEN 0
  ELSE LET i == CHOOSE x \in S : TRUE IN items[i].saved + SumSaved(S \ {i})

RECURSIVE SumItemSubTotal(_)
SumItemSubTotal(S) ==
  IF S = {} THEN 0
  ELSE LET i == CHOOSE x \in S : TRUE IN items[i].sub_total + SumItemSubTotal(S \ {i})

\* The coupon codes of the coupon_apply requests that ran to their end on o.
AppliedCodes(o) == {k \in CouponCodes : << o, k >> \in served.applied}

\* C14: every persisted order satisfies
\* total = sub_total + shipping + tax + service_fee, after create_order and
\* after any coupon_apply requests, in every interleaving of their steps.
C14_OrderTotalIsSumOfParts ==
  \A o \in 1..Len(orders) :
    orders[o].total
      = orders[o].sub_total + orders[o].shipping + orders[o].tax + orders[o].service_fee

\* C14 witness: an order discounted by two coupons.
C14_Witness ==
  \E o \in 1..Len(orders) :
    /\ AllIdle
    /\ Cardinality(orderCoupons[o]) = 2
    /\ orders[o].saved > 0

\* C15: every order item satisfies total = initial_total - saved, and its
\* initial_total is the total of the cart line it was created from
\* (sub_total + shipping), after any coupon_apply requests.
C15_ItemTotalIsInitialMinusSaved ==
  \A i \in 1..Len(items) :
    /\ items[i].total = items[i].initial_total - items[i].saved
    /\ items[i].initial_total = items[i].sub_total + items[i].shipping

\* C15 witness: an item that carries two coupons and was discounted.
C15_Witness ==
  \E i \in 1..Len(items) :
    /\ AllIdle
    /\ Cardinality(itemCoupons[i]) = 2
    /\ items[i].saved > 0

\* A coupon_apply request of worker w returns in this step.
CouponReturns(w) == req[w].op = "coupon_apply" /\ req'[w] = Idle

\* C16: when coupon_apply requests are served one at a time, a request with a
\* coupon of vendor V changes no item of another vendor (total, saved, coupon
\* set); an item of V it changes is discounted by item.total * discount / 100;
\* when it returns every item of V in the order carries the coupon and
\* order.total has gone down by exactly the sum of the item discounts made.
C16_CouponTouchesOnlyItsVendor ==
  [][\A w \in Workers :
       (req[w].op = "coupon_apply" /\ req'[w] # req[w]) =>
         LET code == req[w].coupon
             o    == req[w].oid
             pct  == CouponTable[code].discount
             made == SumSaved(order_items(o)) - orders[o].saved
         IN /\ \A j \in 1..Len(items) :
                 IF items[j].vendor # CouponTable[code].vendor
                   THEN items'[j] = items[j] /\ itemCoupons'[j] = itemCoupons[j]
                   ELSE \/ items'[j] = items[j] /\ itemCoupons'[j] = itemCoupons[j]
                        \/ /\ items'[j].total
                                = items[j].total - (items[j].total * pct) \div 100
                           /\ items'[j].saved
                                = items[j].saved + (items[j].total * pct) \div 100
                           /\ itemCoupons'[j] = itemCoupons[j] \cup {code}
            /\ CouponReturns(w) =>
                 /\ orders'[o].total = orders[o].total - made
                 /\ \A j \in order_items(o) :
                      items[j].vendor = CouponTable[code].vendor
                        => code \in itemCoupons'[j]]_vars

\* C16 witness: an order with items of two vendors after a 10% coupon of v1:
\* the v1 item is discounted, the v2 item is not.
C16_Witness ==
  \E o \in 1..Len(orders) :
    /\ AllIdle
    /\ orderCoupons[o] = {"k1"}
    /\ \E i \in order_items(o) : items[i].vendor = "v1" /\ items[i].saved > 0
    /\ \E i \in order_items(o) :
         items[i].vendor = "v2" /\ items[i].saved = 0 /\ itemCoupons[i] = {}

\* C17: after a coupon_apply with code k on order o has completed, a second
\* coupon_apply with the same code on the same order is rejected as already
\* applied (and so changes nothing).
C17_SecondApplyIsRejected ==
  AllIdle =>
    \A o \in 1..Len(orders) :
      \A k \in AppliedCodes(o) : coupon_apply_result(o, k) = "already_activated"

\* C18: when every coupon_apply request served for an order used the same
\* coupon, however their steps interleaved, each item is discounted by that
\* coupon at most once and the order's saved, sub_total and total reflect
\* exactly the item discounts of one application.
C18_NoDoubleApply ==
  AllIdle =>
    \A o \in 1..Len(orders) :
      \A k \in AppliedCodes(o) :
        AppliedCodes(o) = {k} =>
          /\ \A i \in order_items(o) :
               items[i].saved
                 \in {0, (items[i].initial_total * CouponTable[k].discount) \div 100}
          /\ orders[o].saved = SumSaved(order_items(o))
          /\ orders[o].sub_total
               = SumItemSubTotal(order_items(o)) - SumSaved(order_items(o))
          /\ orders[o].total
               = orders[o].sub_total + orders[o].shipping + orders[o].tax
                 + orders[o].service_fee

\* C19: a coupon_apply that is not rejected records the coupon on the order
\* if and only if at least one item was eligible; with no eligible item no
\* order row changes.
C19_RecordedIffEligibleItem ==
  [][\A w \in Workers :
       CouponReturns(w) =>
         /\ (req[w].coupon \in orderCoupons'[req[w].oid]) <=> (req[w].hit # {})
         /\ req[w].hit = {} => orders' = orders]_vars

\* C20: for an order all of whose items belong to the coupon's vendor, the
\* first application of a coupon of p percent (p > 0 here; a 0% coupon is the
\* case of C19) reduces order.total by p percent of its value before the
\* application, raises order.saved by the same amount, and records the
\* coupon on the order and on each item.
C20_PercentOffOrderTotal ==
  [][\A w \in Workers :
       (/\ CouponReturns(w)
        /\ << req[w].oid, req[w].coupon >> \notin served.applied
        /\ CouponTable[req[w].coupon].discount > 0
        /\ \A i \in order_items(req[w].oid) :
             items[i].vendor = CouponTable[req[w].coupon].vendor)
         => LET o    == req[w].oid
                code == req[w].coupon
                cut  == orders[o].total - orders'[o].total
            IN /\ cut * 100 = orders[o].total * CouponTable[code].discount
               /\ orders'[o].saved = orders[o].saved + cut
               /\ code \in orderCoupons'[o]
               /\ \A i \in order_items(o) : code \in itemCoupons'[i]]_vars

\* ------------------------------------------------------------- cart claims
\* C21: with add_to_cart and delete_cart_item served one after another, a
\* cart never holds two lines for the same (cart_id, product); an accepted
\* add of a product that already has a line in the cart rewrites that line
\* (same key) with the request's qty, color and size and the product's price,
\* and leaves every other line and the number of lines as they were.
C21_OneLinePerCartAndProduct ==
  [][/\ \A l1, l2 \in cart' :
          (l1.cart_id = l2.cart_id /\ l1.product = l2.product) => l1 = l2
     /\ \A c \in CartIds, id \in ProductIds, q \in Qtys, var \in Variants :
          \A e \in cart :
            (/\ add_to_cart(c, id, q, var.color, var.size)
             /\ e.cart_id = c /\ e.product = id
             /\ Published(id) /\ q <= products[id].stock)
              => /\ Cardinality(cart') = Cardinality(cart)
                 /\ \E n \in cart' :
                      /\ n.id = e.id /\ n.cart_id = c /\ n.product = id
                      /\ n.qty = q /\ n.color = var.color /\ n.size = var.size
                      /\ n.price = products[id].price
                      /\ cart' \ {n} = cart \ {e}]_vars

\* C21 witness: two carts hold the same product; the line inserted first
\* carries the product's present price and the line inserted second an
\* earlier price, so the first line was rewritten in place after the vendor
\* changed the price.
C21_Witness ==
  \E l1, l2 \in cart :
    /\ l1.id < l2.id
    /\ l1.product = l2.product
    /\ l1.price = products[l1.product].price
    /\ l2.price # l1.price

\* The sum of the stored sub_total of the lines of table c in a cart.
StoredSubTotal(c, cart_id) == SumSubTotal({l \in c : l.cart_id = cart_id})

\* C22: after every add, update and remove every stored line has
\* sub_total = price * qty and total = sub_total + shipping; a line just
\* written carries the product's price and shipping (times qty) of that
\* moment; and the cart sub_total that add_to_cart and delete_cart_item
\* report is the sum of the stored sub_total of the lines then in the cart.
C22_CartTotalsAreSums ==
  [][/\ \A l \in cart' :
          l.sub_total = l.price * l.qty /\ l.total = l.sub_total + l.shipping
     /\ \A c \in CartIds, id \in ProductIds, q \in Qtys, var \in Variants :
          (/\ add_to_cart(c, id, q, var.color, var.size)
           /\ Published(id) /\ q <= products[id].stock)
            => /\ \E n \in cart' :
                    /\ n.cart_id = c /\ n.product = id /\ n.qty = q
                    /\ n.price = products[id].price
                    /\ n.shipping = products[id].shipping * q
               /\ add_to_cart_response(cart', c).cart_sub_total
                    = Format2f(StoredSubTotal(cart', c))
     /\ \A c \in CartIds, id \in ProductIds, pk \in 1..MaxLines :
          (delete_cart_item(id, pk, c) /\ cart' # cart)
            => delete_cart_item_response(cart', c).cart_sub_total
                 = Format2f(StoredSubTotal(cart', c))]_vars

\* C22 witness: a cart of two lines, one of them with qty 2 and written
\* before the vendor changed the product's price.
C22_Witness ==
  \E l1, l2 \in cart :
    /\ l1 # l2 /\ l1.cart_id = l2.cart_id
    /\ l1.qty = 2
    /\ l1.price # products[l1.product].price

C24_InvalidInputIsRejected ==
  \A ad \in {"a1", "absent", "unknown"} :
    (ad # "a1" \/ CartLines(session) = {})
      => create_order_result(ad) \notin {"exception", "redirect_checkout"}

\* C25: create_order leaves the Cart table as it was, and a step that empties
\* a cart other than by delete_cart_item is the cart clearing of a callback
\* whose provider verification reported success (not create_order, not
\* coupon_apply, not a verification that failed).
C25_CartClearedOnlyByConfirmedPayment ==
  [][/\ \A ad \in {"a1", "absent", "unknown"} : create_order(ad) => cart' = cart
     /\ \A c \in CartIds :
          (/\ CartLines(c) # {}
           /\ \A l \in cart' : l.cart_id # c
           /\ ~ \E id \in ProductIds, pk \in 1..MaxLines, x \in CartIds :
                  delete_cart_item(id, pk, x))
            => \E w \in Workers :
                 /\ req[w].pc = "effects"
                 /\ req'[w] = Idle
                 /\ ProviderSuccess(req[w].op, req[w].resp)]_vars

\* ------------------------------------------------------ fulfilment claims
\* The fulfilment fields of an item row.
Fulfilment(row) == << row.order_status, row.shipping_service, row.tracking_id >>

TrackerValues == {"i1", "i2", "t1", "zz"}

\* C27: for an item with reference r and tracking id t that no other item
\* matches, the tracker gives that item for r and for t; for a value that
\* matches no item it gives the not-found outcome, not a page without item.
C27_TrackerFindsOrNotFound ==
  /\ \A i \in 1..Len(items) :
       \A x \in {ItemRefs[i], items[i].tracking_id} \ {NoValue} :
         (\A j \in 1..Len(items) :
            (ItemRefs[j] = x \/ items[j].tracking_id = x) => j = i)
           => order_tracker_detail(x).item = i
  /\ \A x \in TrackerValues :
       (\A j \in 1..Len(items) : ItemRefs[j] # x /\ items[j].tracking_id # x)
         => order_tracker_detail(x).outcome = "not_found"

\* C28: a delete_cart_item request with cart identifier X deletes no line of
\* another cart, whatever product id and line id it carries.
C28_DeleteIsScopedToItsCart ==
  [][\A id \in ProductIds, pk \in 1..MaxLines, c \in CartIds :
       delete_cart_item(id, pk, c) =>
         \A l \in cart : l.cart_id # c => l \in cart']_vars

\* The items of order o in an OrderItem table, and sums over them.
ItemsOf(tbl, o) == {i \in 1..Len(tbl) : tbl[i].order = o}

RECURSIVE SubTotalOf(_, _)
SubTotalOf(tbl, S) ==
  IF S = {} THEN 0
  ELSE LET i == CHOOSE x \in S : TRUE IN tbl[i].sub_total + SubTotalOf(tbl, S \ {i})

RECURSIVE ShippingOf(_, _)
ShippingOf(tbl, S) ==
  IF S = {} THEN 0
  ELSE LET i == CHOOSE x \in S : TRUE IN tbl[i].shipping + ShippingOf(tbl, S \ {i})

\* C29: when create_order returns, also after add_to_cart or
\* delete_cart_item ran between its sums and its items, the order's
\* sub_total and shipping are the sums over its items, it has one item per
\* cart line the sums were taken over, and its vendors are its items'
\* vendors.
C29_OrderMatchesItsItems ==
  [][\A w \in Workers :
       (req[w].op = "create_order" /\ req'[w] = Idle) =>
         LET o   == req[w].oid
             new == ItemsOf(items', o)
         IN /\ orders'[o].sub_total = SubTotalOf(items', new)
            /\ orders'[o].shipping = ShippingOf(items', new)
            /\ Cardinality(new) = Cardinality(req[w].summed)
            /\ \A l \in req[w].summed :
                 \E i \in new :
                   /\ items'[i].product = l.product
                   /\ items'[i].qty = l.qty
                   /\ items'[i].sub_total = l.sub_total
            /\ orderVendors'[o] = {items'[i].vendor : i \in new}]_vars

\* C30: once an order is Paid no step changes its total, sub_total, saved or
\* coupon set, nor the total or saved of its items; in particular a
\* coupon_apply on a Paid order changes nothing.
C30_NoDiscountAfterPayment ==
  [][\A o \in 1..Len(orders) :
       Paid(o) =>
         /\ orders'[o].total = orders[o].total
         /\ orders'[o].sub_total = orders[o].sub_total
         /\ orders'[o].saved = orders[o].saved
         /\ orderCoupons'[o] = orderCoupons[o]
         /\ \A i \in order_items(o) :
              items'[i].total = items[i].total /\ items'[i].saved = items[i].saved]_vars

\* ------------------------------------------------------------ payment binding
\* C31: a provider payment pays only the order it belongs to: whenever a
\* verification view decides to mark its order Paid, the provider reference
\* its callback carried is the one of the transaction opened for that order;
\* so one transaction moves at most one order to Paid, and a reference
\* replayed against the verification URL of another order does not pay it.
C31_PaymentPaysOnlyItsOrder ==
  [][\A w \in Workers :
       (Loaded(w) /\ "reference" \in DOMAIN req[w] /\ req'[w].pc = "effects")
         => req[w].reference = req[w].oid]_vars

\* ------------------------------------------------------------ vendor scope
\* C32: an update_order_item_status request made by a vendor leaves the
\* order_status, shipping_service and tracking_id of every order item of
\* another vendor as they were, also on an order that holds items of both.
C32_VendorChangesOnlyOwnItems ==
  [][\A v \in Vendors, o \in OrderIds, i \in 1..MaxLines, st \in PostedStatus,
        svc \in PostedService, t \in PostedTracking :
       update_order_item_status(v, o, i, st, svc, t) =>
         \A j \in 1..Len(items) :
           items[j].vendor # v => Fulfilment(items'[j]) = Fulfilment(items[j])]_vars

\* ------------------------------------------------------------ money fields
\* C33: money fields never go negative: in every reachable state every
\* order's sub_total and total and every order item's total are at least 0,
\* whatever coupons with 0 to 100 percent have been applied, several of one
\* vendor and a 100% coupon included.
C33_MoneyNeverNegative ==
  /\ \A o \in 1..Len(orders) : orders[o].sub_total >= 0 /\ orders[o].total >= 0
  /\ \A i \in 1..Len(items) : items[i].total >= 0

====
